---------------------------- MODULE Spec2Model ----------------------------
(* A state-machine model of fake_data_generator.py: the generator registry, *)
(* build_row, and main (provider set-up, schema parsing, dataset assembly,  *)
(* CSV/JSON serialisation, summary).  The Faker provider is an external     *)
(* collaborator: it is modelled by the attributes a locale exposes, by the  *)
(* kind of value each capability returns, and by one shared pseudo-random   *)
(* source whose state advances by one draw per capability invocation.       *)
EXTENDS Integers, Sequences, FiniteSets, TLC

(***************************************************************************)
(* Bounds of the model                                                     *)
(***************************************************************************)
MaxRows == 2
MaxSeed == 1
MaxEntropy == 1
MaxClock == 1
MaxRuns == 2
MaxRowFields == 2

(***************************************************************************)
(* Text.  A string is a sequence of tokens: " " is a whitespace character, *)
(* "," a comma, every other token a run of name characters.                *)
(***************************************************************************)
RECURSIVE LStrip(_)
LStrip(s) == IF s # <<>> /\ Head(s) = " " THEN LStrip(Tail(s)) ELSE s

RECURSIVE RStrip(_)
RStrip(s) ==
    IF s # <<>> /\ s[Len(s)] = " " THEN RStrip(SubSeq(s, 1, Len(s) - 1)) ELSE s

\* str.strip()
Strip(s) == RStrip(LStrip(s))

\* str.split(","): always at least one piece
RECURSIVE Split(_)
Split(s) ==
    IF \E k \in 1..Len(s) : s[k] = ","
    THEN LET k == CHOOSE k \in 1..Len(s) :
                      s[k] = "," /\ \A m \in 1..(k - 1) : s[m] # ","
         IN  <<SubSeq(s, 1, k - 1)>> \o Split(SubSeq(s, k + 1, Len(s)))
    ELSE <<s>>

\* ",".join(names) for a list of plain names
RECURSIVE Join(_)
Join(names) ==
    IF names = <<>> THEN <<>>
    ELSE IF Len(names) = 1 THEN <<names[1]>>
    ELSE <<names[1], ",">> \o Join(Tail(names))

Range(s) == {s[k] : k \in 1..Len(s)}

(***************************************************************************)
(* The provider (Faker).                                                   *)
(***************************************************************************)
Locales == {"pt_BR", "en_US"}

\* attributes every locale exposes
CommonAttrs ==
    {"name", "first_name", "last_name", "email", "user_name", "password",
     "date_of_birth", "phone_number", "uuid4", "street_address",
     "secondary_address", "city", "state", "postcode", "country", "company",
     "job", "url", "domain_name", "ipv4", "pyfloat", "currency_code",
     "credit_card_number", "date", "time", "date_time_between", "sentence",
     "text", "pyint", "date_object", "random"}

\* attributes only the Brazilian locale exposes
BrazilAttrs == {"cpf", "cnpj", "rg", "cellphone_number", "bairro"}

Attrs(locale) == IF locale = "pt_BR" THEN CommonAttrs \cup BrazilAttrs ELSE CommonAttrs

\* what calling the attribute with no arguments gives: a string, a number,
\* an object that is neither (a date, a datetime), or a TypeError when the
\* attribute is not callable
ReturnKind(cap) ==
    CASE cap \in {"pyfloat", "pyint"} -> "num"
      [] cap \in {"date_of_birth", "date_time_between", "date_object"} -> "obj"
      [] cap = "random" -> "raise"
      [] OTHER -> "str"

\* capabilities whose result is drawn relative to the current date and time
UsesClock(cap) ==
    cap \in {"date_of_birth", "date_time_between", "date", "time", "date_object"}

\* hasattr(fake, f)
HasAttr(fake, f) == Len(f) = 1 /\ f[1] \in Attrs(fake.locale)

(***************************************************************************)
(* The pseudo-random source shared by every capability.                    *)
(***************************************************************************)
NoRng == [src |-> "", s |-> 0, n |-> 0]
Seeded(seed) == [src |-> "seed", s |-> seed, n |-> 0]
Unseeded(e) == [src |-> "os", s |-> e, n |-> 0]
Draw(r) == [r EXCEPT !.n = @ + 1]

(***************************************************************************)
(* Values.                                                                 *)
(***************************************************************************)
None == [kind |-> "null", cap |-> "", rnd |-> NoRng, now |-> 0, fmt |-> ""]

\* the value a capability returns at a state of the random source and a time
Produced(cap, r, clk) ==
    [kind |-> ReturnKind(cap), cap |-> cap, rnd |-> r,
     now |-> IF UsesClock(cap) THEN clk ELSE 0, fmt |-> "raw"]

\* .isoformat(): defined on dates and datetimes only
IsoFormat(v) == [v EXCEPT !.kind = "str", !.fmt = "iso"]

\* float(f"{x:.2f}")
Round2(v) == [v EXCEPT !.kind = "num", !.fmt = "round2"]

(***************************************************************************)
(* get_field_generators: the registry.                                     *)
(***************************************************************************)
\* the capability each registry entry calls into
RegistryCap ==
    [nome |-> "name", primeiro_nome |-> "first_name", sobrenome |-> "last_name",
     email |-> "email", usuario |-> "user_name", senha |-> "password",
     data_nascimento |-> "date_of_birth", cpf |-> "cpf", cnpj |-> "cnpj",
     rg |-> "rg", telefone |-> "phone_number", celular |-> "cellphone_number",
     uuid |-> "uuid4", endereco |-> "street_address", bairro |-> "bairro",
     cidade |-> "city", estado |-> "state", cep |-> "postcode",
     pais |-> "country", empresa |-> "company", cargo |-> "job",
     cnpj_empresa |-> "cnpj", url |-> "url", dominio |-> "domain_name",
     ip |-> "ipv4", preco |-> "pyfloat", moeda |-> "currency_code",
     cartao_credito |-> "credit_card_number", data |-> "date", hora |-> "time",
     timestamp |-> "date_time_between", frase |-> "sentence", texto |-> "text"]

RegistryNames == DOMAIN RegistryCap

\* generators.get(f) is not None
InRegistry(f) == Len(f) = 1 /\ f[1] \in RegistryNames

\* the capability the entry ends up calling on this provider: "celular" and
\* "bairro" fall back to a related capability when the provider lacks theirs
CapOf(fake, name) ==
    CASE name = "celular" ->
           IF "cellphone_number" \in Attrs(fake.locale)
           THEN "cellphone_number" ELSE "phone_number"
      [] name = "bairro" ->
           IF "bairro" \in Attrs(fake.locale) THEN "bairro" ELSE "secondary_address"
      [] OTHER -> RegistryCap[name]

\* what the entry does to the capability's result
PostOf(name) ==
    CASE name \in {"data_nascimento", "data", "timestamp"} -> "iso"
      [] name = "preco" -> "round2"
      [] OTHER -> "raw"

Raised(r) == [raised |-> TRUE, val |-> None, rng |-> r]
Returned(v, r) == [raised |-> FALSE, val |-> v, rng |-> r]

\* getattr(fake, cap)(): AttributeError when the provider lacks cap,
\* TypeError when cap is not callable, else one draw and a value
Invoke(fake, cap, r, clk) ==
    IF cap \notin Attrs(fake.locale) \/ ReturnKind(cap) = "raise"
    THEN Raised(r)
    ELSE Returned(Produced(cap, r, clk), Draw(r))

\* the entry's own code around the capability call
PostProcess(post, out) ==
    IF out.raised THEN out
    ELSE CASE post = "iso" ->
                IF out.val.kind = "obj"
                THEN Returned(IsoFormat(out.val), out.rng)
                ELSE Raised(out.rng)
           [] post = "round2" -> Returned(Round2(out.val), out.rng)
           [] OTHER -> out

\* gen()
Generate(fake, name, r, clk) ==
    PostProcess(PostOf(name), Invoke(fake, CapOf(fake, name), r, clk))

DEFAULT_SCHEMA ==
    <<"nome", "email", "cpf", "telefone", "endereco", "cidade", "estado",
      "cep", "empresa", "cargo", "data">>

(***************************************************************************)
(* build_row.  A row is a dict: pairs <<key, value>> with unique keys, in   *)
(* insertion order.                                                        *)
(***************************************************************************)
Keys(d) == {d[k][1] : k \in 1..Len(d)}

DictGet(d, key) ==
    IF key \in Keys(d)
    THEN d[CHOOSE k \in 1..Len(d) : d[k][1] = key][2]
    ELSE None

\* a variant of DictSet that keeps the first value of a key (setdefault)
DictSet_KeepFirst(d, key, v) ==
    IF key \in {d[k][1] : k \in 1..Len(d)} THEN d ELSE Append(d, <<key, v>>)

\* row[f] = val: an existing key keeps its place and takes the new value
DictSet(d, key, v) ==
    IF key \in Keys(d)
    THEN [k \in 1..Len(d) |-> IF d[k][1] = key THEN <<key, v>> ELSE d[k]]
    ELSE Append(d, <<key, v>>)

\* a variant of FieldKey that does not trim the name
FieldKey_Raw(field) == field

\* f = field.strip()
FieldKey(field) == Strip(field)

\* a variant of Resolve that asks the provider without checking hasattr
Resolve_NoHasattr(fake, f) == IF InRegistry(f) THEN "registry" ELSE "provider"

\* a variant of Resolve that prefers the provider's attribute to the registry
Resolve_ProviderFirst(fake, f) ==
    IF HasAttr(fake, f) THEN "provider"
    ELSE IF InRegistry(f) THEN "registry"
    ELSE "null"

\* which of the three sources gives the value of f
Resolve(fake, f) ==
    IF InRegistry(f) THEN "registry"
    ELSE IF HasAttr(fake, f) THEN "provider"
    ELSE "null"

\* the value of one field: gen(), getattr(fake, f)() or None
FieldValue(fake, f, r, clk) ==
    CASE Resolve(fake, f) = "registry" -> Generate(fake, f[1], r, clk)
      [] Resolve(fake, f) = "provider" -> Invoke(fake, f[1], r, clk)
      [] OTHER -> Returned(None, r)

\* a variant of AfterField that swallows the exception
AfterField_Swallow(raised) == "row"

\* an exception leaves build_row and main; otherwise the loop goes on
AfterField(raised) == IF raised THEN "aborted" ELSE "row"

(***************************************************************************)
(* Serialisation.                                                          *)
(***************************************************************************)
\* str(v): the text of a value; a number and a string of the same text
\* give the same characters
StrOf(v) == [cap |-> v.cap, rnd |-> v.rnd, now |-> v.now, fmt |-> v.fmt]

\* a variant of CsvField that writes the text of None
CsvField_NoneText(v) == <<StrOf(v)>>

\* csv.writer: None is written as the empty field, anything else as str(v)
CsvField(v) == IF v = None THEN <<>> ELSE <<StrOf(v)>>

\* DictWriter.writerow: rowdict.get(key, "") for key in fieldnames
CsvRow(fieldnames, d) ==
    [c \in 1..Len(fieldnames) |-> CsvField(DictGet(d, fieldnames[c]))]

\* DictWriter raises ValueError on a key that is no fieldname
CsvAccepts(fieldnames, d) == Keys(d) \subseteq Range(fieldnames)

\* json.dump can encode strings, numbers and null
JsonAble(v) == v.kind \in {"str", "num", "null"}

JsonValue(v) ==
    CASE v.kind = "null" -> [t |-> "null", text |-> <<>>]
      [] v.kind = "num" -> [t |-> "number", text |-> <<StrOf(v)>>]
      [] OTHER -> [t |-> "string", text |-> <<StrOf(v)>>]

JsonObject(d) == [k \in 1..Len(d) |-> <<d[k][1], JsonValue(d[k][2])>>]

RowJsonAble(d) == \A k \in 1..Len(d) : JsonAble(d[k][2])

\* the records json.dump has written when it stops: all of them, or those
\* before the first one it cannot encode
JsonWritten(rs) ==
    IF \A r \in 1..Len(rs) : RowJsonAble(rs[r]) THEN Len(rs)
    ELSE (CHOOSE r \in 1..Len(rs) :
              ~RowJsonAble(rs[r]) /\ \A q \in 1..(r - 1) : RowJsonAble(rs[q])) - 1

CsvFile(fieldnames, rs) ==
    [fmt |-> "csv", header |-> fieldnames,
     body |-> [r \in 1..Len(rs) |-> CsvRow(fieldnames, rs[r])],
     complete |-> \A r \in 1..Len(rs) : CsvAccepts(fieldnames, rs[r])]

JsonFile(rs) ==
    [fmt |-> "json", header |-> <<>>,
     body |-> [r \in 1..JsonWritten(rs) |-> JsonObject(rs[r])],
     complete |-> JsonWritten(rs) = Len(rs)]

\* a file that was at the destination before the program ran
OldFile == [fmt |-> "old", header |-> <<>>, body |-> <<>>, complete |-> TRUE]

\* the --output path, or the generated name
Explicit(name) == [auto |-> FALSE, name |-> name, locale |-> "", ts |-> 0, ext |-> ""]
AutoName(locale, ts, ext) ==
    [auto |-> TRUE, name |-> "fake_data", locale |-> locale, ts |-> ts, ext |-> ext]
NoPath == [auto |-> FALSE, name |-> "", locale |-> "", ts |-> 0, ext |-> ""]

\* open(path, "w") followed by the writes: creates or replaces the file
WriteFile(files, path, content) ==
    [p \in DOMAIN files \cup {path} |-> IF p = path THEN content ELSE files[p]]

(***************************************************************************)
(* main.                                                                   *)
(***************************************************************************)
\* a variant of RangeLen for range(n + 1)
RangeLen_Inclusive(n) == IF n >= 0 THEN n + 1 ELSE 0

\* len(range(n))
RangeLen(n) == IF n > 0 THEN n ELSE 0

RECURSIVE NonEmpty(_)
NonEmpty(entries) ==
    IF entries = <<>> THEN <<>>
    ELSE IF Strip(Head(entries)) # <<>>
         THEN <<Strip(Head(entries))>> \o NonEmpty(Tail(entries))
         ELSE NonEmpty(Tail(entries))

\* [s.strip() for s in args.schema.split(",") if s.strip()]
ParseSchemaArg(text) == NonEmpty(Split(text))

\* command lines: --schema values
SchemaArgs ==
    {Join(DEFAULT_SCHEMA),
     <<"nome", ",", "email">>,
     <<"nome", ",", " ", "campo_inexistente">>,
     <<"timestamp">>,
     <<"nome", ",", "preco", ",", "nome">>,
     <<"date_object", ",", "cpf">>,
     <<" ", ",", "pyint", ",", " ", "celular", " ", ",">>,
     <<"nome", ",", "random">>,
     <<>>}

\* argparse's namespace; an option that was not given is <<>>
ArgSets ==
    [rows : (-1)..MaxRows, locale : Locales, format : {"csv", "json"},
     schema : SchemaArgs, output : {<<>>, <<"dados">>},
     seed : {<<>>} \cup {<<s>> : s \in 0..MaxSeed}]

NoFake == [locale |-> ""]
NoPrev == [pc |-> "", rows |-> <<>>, written |-> FALSE, file |-> OldFile]

VARIABLES
    args,     \* the parsed command line
    pc,       \* where main is
    fake,     \* the provider
    rng,      \* the shared pseudo-random source
    schema,   \* the parsed schema
    rows,     \* the dataset built so far
    row,      \* the dict build_row is filling
    j,        \* the index of the next field of the schema
    calls,    \* the field resolutions made so far, in order
    output,   \* args.output
    fs,       \* the files that exist, by path
    fs0,      \* the files that existed when the process started
    stdout,   \* the lines printed
    clock,    \* the date and time
    run,      \* how many times the program was started
    prev      \* what the previous run built and wrote

vars ==
    <<args, pc, fake, rng, schema, rows, row, j, calls, output, fs, fs0,
      stdout, clock, run, prev>>

Init ==
    /\ args \in ArgSets
    /\ pc = "start"
    /\ fake = NoFake
    /\ rng = NoRng
    /\ schema = <<>>
    /\ rows = <<>>
    /\ row = <<>>
    /\ j = 0
    /\ calls = <<>>
    /\ output = IF args.output = <<>> THEN NoPath ELSE Explicit(args.output[1])
    /\ fs = [p \in {Explicit("dados")} |-> OldFile]
    /\ fs0 = fs
    /\ stdout = <<>>
    /\ clock = 0
    /\ run = 1
    /\ prev = NoPrev

\* fake = Faker(args.locale); Faker.seed(args.seed) when a seed is given
CreateProvider ==
    /\ pc = "start"
    /\ fake' = [locale |-> args.locale]
    /\ IF args.seed # <<>>
       THEN rng' = Seeded(args.seed[1])
       ELSE \E e \in 0..MaxEntropy : rng' = Unseeded(e)
    /\ pc' = "schema"
    /\ UNCHANGED <<args, schema, rows, row, j, calls, output, fs, fs0, stdout,
                   clock, run, prev>>

ParseSchema ==
    /\ pc = "schema"
    /\ schema' = ParseSchemaArg(args.schema)
    /\ pc' = "build"
    /\ UNCHANGED <<args, fake, rng, rows, row, j, calls, output, fs, fs0,
                   stdout, clock, run, prev>>

\* the next iteration of the comprehension enters build_row
BeginRow ==
    /\ pc = "build"
    /\ Len(rows) < RangeLen(args.rows)
    /\ row' = <<>>
    /\ j' = 1
    /\ pc' = "row"
    /\ UNCHANGED <<args, fake, rng, schema, rows, calls, output, fs, fs0,
                   stdout, clock, run, prev>>

\* one iteration of build_row's loop
ResolveField ==
    /\ pc = "row"
    /\ j <= Len(schema)
    /\ LET f == FieldKey(schema[j])
           out == FieldValue(fake, f, rng, clock)
       IN  /\ calls' = Append(calls,
                  [row |-> Len(rows) + 1, col |-> j, field |-> f,
                   how |-> Resolve(fake, f), raised |-> out.raised,
                   val |-> out.val])
           /\ rng' = out.rng
           /\ pc' = AfterField(out.raised)
           /\ IF AfterField(out.raised) = "aborted"
              THEN UNCHANGED <<row, j>>
              ELSE /\ row' = DictSet(row, f, out.val)
                   /\ j' = j + 1
    /\ UNCHANGED <<args, fake, schema, rows, output, fs, fs0, stdout, clock,
                   run, prev>>

\* build_row returns; the comprehension collects the row
ReturnRow ==
    /\ pc = "row"
    /\ j > Len(schema)
    /\ rows' = Append(rows, row)
    /\ pc' = "build"
    /\ UNCHANGED <<args, fake, rng, schema, row, j, calls, output, fs, fs0,
                   stdout, clock, run, prev>>

\* the dataset is complete; the default output name is made up
DefaultOutput ==
    /\ pc = "build"
    /\ Len(rows) >= RangeLen(args.rows)
    /\ output' = IF args.output = <<>>
                 THEN AutoName(args.locale, clock, args.format)
                 ELSE output
    /\ pc' = "write"
    /\ UNCHANGED <<args, fake, rng, schema, rows, row, j, calls, fs, fs0,
                   stdout, clock, run, prev>>

WriteCsv ==
    /\ pc = "write"
    /\ args.format = "csv"
    /\ fs' = WriteFile(fs, output, CsvFile(schema, rows))
    /\ pc' = IF CsvFile(schema, rows).complete THEN "summary" ELSE "write_failed"
    /\ UNCHANGED <<args, fake, rng, schema, rows, row, j, calls, output, fs0,
                   stdout, clock, run, prev>>

WriteJson ==
    /\ pc = "write"
    /\ args.format # "csv"
    /\ fs' = WriteFile(fs, output, JsonFile(rows))
    /\ pc' = IF JsonFile(rows).complete THEN "summary" ELSE "write_failed"
    /\ UNCHANGED <<args, fake, rng, schema, rows, row, j, calls, output, fs0,
                   stdout, clock, run, prev>>

PrintSummary ==
    /\ pc = "summary"
    /\ stdout' = <<<<"Arquivo gerado", output>>, <<"Campos", schema>>,
                   <<"Linhas", Len(rows)>>>>
    /\ pc' = "done"
    /\ UNCHANGED <<args, fake, rng, schema, rows, row, j, calls, output, fs,
                   fs0, clock, run, prev>>

Ended == pc \in {"done", "aborted", "write_failed"}

\* the same command line is run again, at the same or a later time
Rerun ==
    /\ Ended
    /\ run < MaxRuns
    /\ \E t \in clock..MaxClock : clock' = t
    /\ prev' = [pc |-> pc, rows |-> rows, written |-> pc = "done",
                file |-> IF pc = "done" THEN fs[output] ELSE OldFile]
    /\ run' = run + 1
    /\ pc' = "start"
    /\ fake' = NoFake
    /\ rng' = NoRng
    /\ schema' = <<>>
    /\ rows' = <<>>
    /\ row' = <<>>
    /\ j' = 0
    /\ calls' = <<>>
    /\ output' = IF args.output = <<>> THEN NoPath ELSE Explicit(args.output[1])
    /\ fs0' = fs
    /\ stdout' = <<>>
    /\ UNCHANGED <<args, fs>>

Next ==
    \/ CreateProvider
    \/ ParseSchema
    \/ BeginRow
    \/ ResolveField
    \/ ReturnRow
    \/ DefaultOutput
    \/ WriteCsv
    \/ WriteJson
    \/ PrintSummary
    \/ Rerun

Spec == Init /\ [][Next]_vars

(***************************************************************************)
(* build_row called on its own, with any list of names.                    *)
(***************************************************************************)
RawNames == {<<"nome">>, <<" ", "nome">>, <<"cpf">>, <<"pyint">>, <<" ">>}

RECURSIVE Lists(_)
Lists(n) ==
    IF n = 0 THEN {<<>>}
    ELSE Lists(n - 1) \cup
         {Append(l, x) : l \in {m \in Lists(n - 1) : Len(m) = n - 1}, x \in RawNames}

InitRow ==
    /\ \E l \in Locales, s \in 0..MaxSeed :
          /\ args = [rows |-> 1, locale |-> l, format |-> "csv", schema |-> <<>>,
                     output |-> <<>>, seed |-> <<s>>]
          /\ fake = [locale |-> l]
          /\ rng = Seeded(s)
    /\ schema \in Lists(MaxRowFields)
    /\ pc = "row"
    /\ rows = <<>>
    /\ row = <<>>
    /\ j = 1
    /\ calls = <<>>
    /\ output = NoPath
    /\ fs = [p \in {Explicit("dados")} |-> OldFile]
    /\ fs0 = fs
    /\ stdout = <<>>
    /\ clock = 0
    /\ run = 1
    /\ prev = NoPrev

NextRow ==
    \/ ResolveField
    \/ ReturnRow

RowSpec == InitRow /\ [][NextRow]_vars

(***************************************************************************)
(* Properties.                                                             *)
(***************************************************************************)
Built == pc \in {"write", "summary", "done", "write_failed"}
Completed == pc \in {"summary", "done"}
Unknown(f) ==
    /\ ~(Len(f) = 1 /\ f[1] \in RegistryNames)
    /\ ~(Len(f) = 1 /\ f[1] \in Attrs(fake.locale))
CallsOfRow(r) == {k \in 1..Len(calls) : calls[k].row = r}
LastCall(r, key) ==
    CHOOSE k \in CallsOfRow(r) :
        /\ calls[k].field = key
        /\ \A m \in CallsOfRow(r) : calls[m].field = key => m <= k

\* C1: for a requested row count >= 0, the dataset a run has finished
\* building holds exactly that many records (none for 0), and the file a
\* completed run wrote holds exactly that many data records.
C1_DatasetLength ==
    /\ (Built /\ args.rows >= 0) => Len(rows) = args.rows
    /\ (Completed /\ args.rows >= 0) =>
          /\ output \in DOMAIN fs
          /\ fs[output].complete
          /\ Len(fs[output].body) = args.rows

C1_Witness ==
    /\ pc = "done"
    /\ args.rows > 0
    /\ schema # <<>>
    /\ Len(rows) = args.rows
    /\ Len(fs[output].body) = args.rows

\* C2 as stated: the keys of a record build_row returned are the names of
\* the schema it was given.
C2_KeysAreSchemaNames ==
    \A r \in 1..Len(rows) : Keys(rows[r]) = Range(schema)

\* C2 as amended: the keys of a record build_row returned are the names of
\* the schema it was given with the surrounding whitespace trimmed, names
\* that are equal after trimming giving one key.
C2_KeysAreTrimmedNames ==
    \A r \in 1..Len(rows) :
        Keys(rows[r]) = {Strip(schema[k]) : k \in 1..Len(schema)}

C2_Witness ==
    /\ Len(rows) = 1
    /\ \E k \in 1..Len(schema) : Strip(schema[k]) # schema[k]
    /\ Cardinality(Keys(rows[1])) < Len(schema)

\* C3: a field that is neither in the registry nor an attribute of the
\* provider resolves to null without raising: its value in the record is
\* null, and a run never aborts at such a field.
C3_UnknownIsNull ==
    /\ \A k \in 1..Len(calls) :
          Unknown(calls[k].field) =>
             /\ ~calls[k].raised
             /\ calls[k].val = None
             /\ (k = Len(calls) => pc # "aborted")
             /\ calls[k].row <= Len(rows) =>
                   DictGet(rows[calls[k].row], calls[k].field) = None
    /\ pc = "aborted" =>
          /\ calls # <<>>
          /\ calls[Len(calls)].raised
          /\ ~Unknown(calls[Len(calls)].field)

C3_Witness ==
    /\ pc = "done"
    /\ Len(rows) >= 2
    /\ \E k \in 1..Len(calls) :
          /\ Unknown(calls[k].field)
          /\ k < Len(calls)
          /\ \E m \in 1..Len(calls) : ~Unknown(calls[m].field) /\ calls[m].val # None

\* C4: with the same seed, locale, schema and row count, a second run
\* builds the dataset the first run built and writes the same file, for
\* every schema of registry names, whatever the time of the run.
C4_SameInputsSameOutput ==
    (/\ run > 1
     /\ args.seed # <<>>
     /\ prev.pc = "done"
     /\ \A k \in 1..Len(schema) : InRegistry(schema[k])) =>
       /\ Built => rows = prev.rows
       /\ pc = "done" => fs[output] = prev.file

\* C5: the CSV file of a completed run is a header equal to the schema, in
\* order and with its duplicates, then one row per record in dataset order,
\* each giving the record's values in schema order, null as an empty field.
C5_CsvLayout ==
    (Completed /\ args.format = "csv") =>
       /\ output \in DOMAIN fs
       /\ fs[output].fmt = "csv"
       /\ fs[output].header = schema
       /\ Len(fs[output].body) = Len(rows)
       /\ \A r \in 1..Len(rows) :
             /\ Len(fs[output].body[r]) = Len(schema)
             /\ \A c \in 1..Len(schema) :
                   LET v == DictGet(rows[r], schema[c])
                       cell == fs[output].body[r][c]
                   IN  IF v.kind = "null"
                       THEN cell = <<>>
                       ELSE cell = <<[cap |-> v.cap, rnd |-> v.rnd,
                                      now |-> v.now, fmt |-> v.fmt]>>

C5_Witness ==
    /\ pc = "done"
    /\ args.format = "csv"
    /\ Len(rows) >= 2
    /\ \E c, d \in 1..Len(schema) :
          /\ fs[output].body[2][c] = <<>>
          /\ fs[output].body[2][d] # <<>>

\* C6: a run that was given a row count below 0 does not end as a
\* successful run that generated a dataset and wrote a file.
C6_NegativeRowsRejected == pc = "done" => args.rows >= 0

\* C7: every value stored in a record is a string, a number or null, so
\* that writing the dataset never fails on a value.
C7_ValuesAreScalars ==
    /\ \A r \in 1..Len(rows) : \A k \in 1..Len(rows[r]) :
          rows[r][k][2].kind \in {"str", "num", "null"}
    /\ \A k \in 1..Len(row) : row[k][2].kind \in {"str", "num", "null"}
    /\ pc # "write_failed"

\* C8: a name with a registry entry is resolved by that entry, also when
\* the provider has an attribute of the same name; the provider's attribute
\* is called only for a name without an entry; null is used only when
\* there is neither.
C8_ResolutionPriority ==
    \A k \in 1..Len(calls) :
        LET c == calls[k]
            inReg == Len(c.field) = 1 /\ c.field[1] \in RegistryNames
            isAttr == Len(c.field) = 1 /\ c.field[1] \in Attrs(fake.locale)
        IN  /\ c.how = "registry" <=> inReg
            /\ c.how = "provider" <=> (~inReg /\ isAttr)
            /\ c.how = "null" <=> (~inReg /\ ~isAttr)
            /\ (c.how = "registry" /\ ~c.raised) =>
                  c.val = Generate(fake, c.field[1], c.val.rnd, clock).val
            /\ (c.how = "provider" /\ ~c.raised) =>
                  c.val = Produced(c.field[1], c.val.rnd, clock)
            /\ c.how = "null" => (c.val = None /\ ~c.raised)

C8_Witness ==
    /\ pc = "done"
    /\ \E k, m \in 1..Len(calls) :
          /\ calls[k].how = "registry"
          /\ HasAttr(fake, calls[k].field)
          /\ calls[m].how = "provider"

\* C9: fields are resolved one at a time in row-major order, one resolution
\* per occurrence of a name in the schema; the random source advances by
\* exactly one draw per generator invocation and by nothing else; in a
\* record a name that occurs twice holds the value of its last occurrence.
C9_RowMajorOrder ==
    LET n == Len(schema)
        Invoked(k) == calls[k].how # "null" /\ ~calls[k].raised
    IN  /\ \A k \in 1..Len(calls) :
              /\ calls[k].row = ((k - 1) \div n) + 1
              /\ calls[k].col = ((k - 1) % n) + 1
              /\ calls[k].field = schema[calls[k].col]
              /\ Invoked(k) =>
                    calls[k].val.rnd.n =
                       Cardinality({m \in 1..(k - 1) : Invoked(m)})
        /\ pc \in {"build", "write", "summary", "done", "write_failed"} =>
              Len(calls) = Len(rows) * n
        /\ pc = "row" => Len(calls) = Len(rows) * n + (j - 1)
        /\ pc # "aborted" =>
              rng.n = Cardinality({k \in 1..Len(calls) : calls[k].how # "null"})
        /\ (pc \notin {"start"} /\ args.seed # <<>>) =>
              (rng.src = "seed" /\ rng.s = args.seed[1])
        /\ \A r \in 1..Len(rows) : \A key \in Keys(rows[r]) :
              DictGet(rows[r], key) = calls[LastCall(r, key)].val

C9_Witness ==
    /\ pc = "done"
    /\ Len(rows) >= 2
    /\ \E a, b \in 1..Len(schema) : a < b /\ schema[a] = schema[b]
    /\ rng.n >= 6

\* C10: a generator invocation that raises ends the run there: it is the
\* last resolution made, the rows before it stay as they are and no further
\* row is built, no file is created or replaced, and nothing is printed;
\* no file is touched before the whole dataset is built.
C10_FailureAborts ==
    /\ \A k \in 1..Len(calls) :
          calls[k].raised =>
             /\ pc = "aborted"
             /\ k = Len(calls)
             /\ Len(rows) = calls[k].row - 1
    /\ pc = "aborted" =>
          /\ calls # <<>>
          /\ calls[Len(calls)].raised
    /\ pc \in {"start", "schema", "build", "row", "aborted"} =>
          /\ fs = fs0
          /\ stdout = <<>>

C10_Witness ==
    /\ pc = "aborted"
    /\ Len(calls) >= 2
    /\ output \in DOMAIN fs
    /\ fs[output] = OldFile
    /\ stdout = <<>>

=============================================================================
